---- MODULE Spec2Model ----
(***************************************************************************)
(* Clinic back-office (Flask + Flask-Login + Flask-WTF + SQLAlchemy).      *)
(* State: the four tables, the browser session, the request being handled  *)
(* and the response it received.  One action per view function of app.py.  *)
(*                                                                         *)
(* Conventions                                                             *)
(*   None / NULL is the empty tuple <<>>, a value v that may be None is    *)
(*   <<v>> (Some).  A form field's raw_data is formdata.getlist(name): <<>>*)
(*   when the field was not submitted, <<text>> when it was.               *)
(*   A date is <<y, m, d>>, a datetime <<y, m, d, H, M>>.                  *)
(*   Cyrillic literals of the source are transliterated (the status values *)
(*   'запланирован', 'завершён', 'отменён') or paraphrased (flash texts).  *)
(***************************************************************************)
EXTENDS Integers, Sequences, FiniteSets, TLC

VARIABLES
    started,        \* create_admin (before_first_request) has run
    admin_users,    \* table admin_users: id -> [username, password_hash]
    patients,       \* table patients:    id -> row
    doctors,        \* table doctors:     id -> row
    appointments,   \* table appointments: id -> row
    session,        \* Flask-Login's session['_user_id']: None or Some(id)
    last_deleted,   \* history: Some(<<table, id>>) while the last mutation is that delete
    request,        \* the request being handled, NoRequest between requests
    response,       \* the response to it
    before          \* history: the tables and the session as the request found them

vars == <<started, admin_users, patients, doctors, appointments, session,
          last_deleted, request, response, before>>

tables == <<admin_users, patients, doctors, appointments>>

----------------------------------------------------------------------------
(* Bounds of the model *)

MaxId == 2      \* the largest id a table hands out
MaxRows == 3    \* the rows the patients, doctors and appointments tables hold together

(* Program constants *)

PER_PAGE == 10
MAX_FULL_NAME == 150
MAX_SPECIALTY == 100
MAX_PHONE == 20
MAX_EMAIL == 120
MAX_ROOM == 20

----------------------------------------------------------------------------
(* Option values *)

None == <<>>
Some(v) == <<v>>
Get(o) == o[1]

Max(S) == IF S = {} THEN 0 ELSE CHOOSE m \in S : \A n \in S : n <= m

EmptyTable == [i \in {} |-> None]

Insert(tbl, id, row) == [i \in DOMAIN tbl \cup {id} |-> IF i = id THEN row ELSE tbl[i]]

(* Mutation: the DELETE is never issued *)
Remove_noop(tbl, id) == tbl

Remove(tbl, id) == [i \in DOMAIN tbl \ {id} |-> tbl[i]]

Rows == Cardinality(DOMAIN patients) + Cardinality(DOMAIN doctors)
            + Cardinality(DOMAIN appointments)

(* The bound of the model on an INSERT that is about to happen *)
RoomFor(id) == id <= MaxId /\ Rows < MaxRows

(* SQLite INTEGER PRIMARY KEY without AUTOINCREMENT: the new rowid is one  *)
(* more than the largest in the table.                                     *)
NewId(tbl) == Max(DOMAIN tbl) + 1

----------------------------------------------------------------------------
(* werkzeug.security: a salted one-way hash, modelled symbolically *)

Salts == {"salt1", "salt2"}

generate_password_hash_salted(password, salt) == <<"pbkdf2", salt, <<"H", salt, password>>>>

(* Mutation: any password matches *)
check_password_hash_any(pwhash, password) == TRUE

check_password_hash(pwhash, password) ==
    pwhash = generate_password_hash_salted(password, pwhash[2])

check_password(user, password) == check_password_hash(user.password_hash, password)

----------------------------------------------------------------------------
(* datetime.strptime / strftime *)

IsLeap(y) == (y % 4 = 0 /\ y % 100 # 0) \/ y % 400 = 0

DaysInMonth(y, m) ==
    IF m \in {4, 6, 9, 11} THEN 30
    ELSE IF m = 2 THEN (IF IsLeap(y) THEN 29 ELSE 28)
    ELSE 31

(* The numbers a text holds when it has the shape of the format (digits    *)
(* separated as the format says), <<>> when it has another shape.          *)
Scan(text, format) ==
    IF format = "%Y-%m-%d %H:%M" THEN
        CASE text = "2024-03-15 14:30" -> <<2024, 3, 15, 14, 30>>
          [] text = "2025-1-2 9:05"    -> <<2025, 1, 2, 9, 5>>
          [] text = "2025-01-02 09:05" -> <<2025, 1, 2, 9, 5>>
          [] text = "2024-13-40 25:99" -> <<2024, 13, 40, 25, 99>>
          [] text = "2023-02-29 10:00" -> <<2023, 2, 29, 10, 0>>
          [] OTHER -> <<>>
    ELSE
        CASE text = "1990-01-15" -> <<1990, 1, 15>>
          [] text = "1990-02-30" -> <<1990, 2, 30>>
          [] OTHER -> <<>>

(* Mutation: the numbers are not checked against the calendar and the clock *)
strptime_unchecked(text, format) ==
    LET t == Scan(text, format) IN IF t = <<>> THEN None ELSE Some(t)

(* None for ValueError, Some(value) otherwise *)
strptime(text, format) ==
    LET t == Scan(text, format) IN
    IF t = <<>> THEN None
    ELSE IF /\ t[1] \in 1..9999
            /\ t[2] \in 1..12
            /\ t[3] \in 1..DaysInMonth(t[1], t[2])
            /\ (Len(t) = 5 => t[4] \in 0..23 /\ t[5] \in 0..59)
         THEN Some(t)
         ELSE None

Pad2(n) == IF n < 10 THEN "0" \o ToString(n) ELSE ToString(n)

(* strftime('%Y-%m-%d %H:%M') of a datetime with a four-digit year *)
strftime(dt) ==
    ToString(dt[1]) \o "-" \o Pad2(dt[2]) \o "-" \o Pad2(dt[3]) \o " "
        \o Pad2(dt[4]) \o ":" \o Pad2(dt[5])

----------------------------------------------------------------------------
(* WTForms fields.  process: formdata wins over the object's value when the *)
(* field was submitted; a field that was not submitted keeps the object's   *)
(* value (Field.process calls process_data(obj value), then                 *)
(* process_formdata(raw_data), which returns at once on an empty list).     *)

(* Mutation: a field that was not submitted becomes the empty text *)
StringField_process_blank(raw, objdata) ==
    [data |-> IF raw # <<>> THEN Some(raw[1]) ELSE Some(""), perr |-> {}]

StringField_process(raw, objdata) ==
    [data |-> IF raw # <<>> THEN Some(raw[1]) ELSE objdata, perr |-> {}]

DateField_process(raw, objdata) ==
    IF raw = <<>> THEN [data |-> objdata, perr |-> {}]
    ELSE LET d == strptime(raw[1], "%Y-%m-%d") IN
         IF d = None THEN [data |-> None, perr |-> {"Not a valid date value"}]
         ELSE [data |-> d, perr |-> {}]

(* int(text): None for ValueError *)
int(text) ==
    IF \E n \in 0..9 : ToString(n) = text
    THEN Some(CHOOSE n \in 0..9 : ToString(n) = text)
    ELSE None

(* SelectField(coerce=int) *)
SelectField_int_process(raw, objdata) ==
    IF raw = <<>> THEN [data |-> objdata, perr |-> {}]
    ELSE LET c == int(raw[1]) IN
         IF c = None THEN [data |-> objdata, perr |-> {"Invalid Choice: could not coerce"}]
         ELSE [data |-> c, perr |-> {}]

(* SelectField with the default coerce=str *)
SelectField_process(raw, objdata) ==
    [data |-> IF raw # <<>> THEN Some(raw[1]) ELSE objdata, perr |-> {}]

(* Mutation: the choice is not validated *)
pre_validate_off(data, choices) == {}

(* SelectField.pre_validate *)
pre_validate(data, choices) ==
    IF data # None /\ Get(data) \in choices THEN {} ELSE {"Not a valid choice"}

strip(s) == IF s = " " THEN "" ELSE s

(* DataRequired on text: the data is truthy and not only whitespace *)
DataRequired(data) == data # None /\ strip(Get(data)) # ""

(* DataRequired on a coerce=int field: the data is truthy *)
DataRequired_int(data) == data # None /\ Get(data) # 0

Length(data, max) == (IF data = None THEN 0 ELSE Len(Get(data))) <= max

(* The texts of the model that have e-mail syntax *)
EmailSyntax == {"ann@clinic.org", "dr@clinic.org"}

Email(data) == data # None /\ Get(data) \in EmailSyntax

(* Field.validate of a StringField: process errors, then the validators in *)
(* order; DataRequired replaces the errors and stops the chain.            *)
validate_text(f, required, max, email) ==
    IF required /\ ~DataRequired(f.data) THEN {"This field is required."}
    ELSE f.perr
         \cup (IF max > 0 /\ ~Length(f.data, max) THEN {"Field too long"} ELSE {})
         \cup (IF email /\ ~Email(f.data) THEN {"Invalid email address."} ELSE {})

validate_select_int(f, choices) ==
    IF ~DataRequired_int(f.data) THEN {"This field is required."}
    ELSE f.perr \cup pre_validate(f.data, choices)

(* Flask-WTF's CSRF field: the token of the session, or an error *)
validate_csrf(raw) == IF raw = <<"ok">> THEN {} ELSE {"The CSRF token is missing."}

FieldErrors(name, errs) == {<<name, e>> : e \in errs}

----------------------------------------------------------------------------
(* Requests and responses *)

NoForm == [none |-> TRUE]

Req(route, method, id, page, today, form) ==
    [route |-> route, method |-> method, id |-> id, page |-> page,
     today |-> today, form |-> form]

NoRequest == Req("", "", 0, 0, <<>>, NoForm)

NoFlash == <<>>

(* redirect(url_for(location)) *)
Redirect(location, flash) ==
    [code |-> 302, location |-> location, template |-> "", title |-> "",
     flash |-> flash, form |-> NoForm, errors |-> {}, items |-> <<>>, stats |-> <<>>]

(* render_template(template, form=form, title=title); errors are the      *)
(* form's field errors, as <<field, message>>                             *)
RenderForm(template, title, form, errors, flash) ==
    [code |-> 200, location |-> "", template |-> template, title |-> title,
     flash |-> flash, form |-> form, errors |-> errors, items |-> <<>>, stats |-> <<>>]

RenderList(template, items) ==
    [code |-> 200, location |-> "", template |-> template, title |-> "",
     flash |-> NoFlash, form |-> NoForm, errors |-> {}, items |-> items, stats |-> <<>>]

RenderStats(template, stats) ==
    [code |-> 200, location |-> "", template |-> template, title |-> "",
     flash |-> NoFlash, form |-> NoForm, errors |-> {}, items |-> <<>>, stats |-> stats]

(* stats: <<patients, doctors, appointments, today_appointments>> *)
(* abort(404), or an exception no handler catches (500) *)
Abort(code) ==
    [code |-> code, location |-> "", template |-> "", title |-> "",
     flash |-> NoFlash, form |-> NoForm, errors |-> {}, items |-> <<>>, stats |-> <<>>]

NoResponse == Abort(0)

NoSnapshot == [none |-> TRUE]

Snapshot ==
    [admin_users |-> admin_users, patients |-> patients, doctors |-> doctors,
     appointments |-> appointments, session |-> session, last_deleted |-> last_deleted]

(* The server takes one request at a time: a view runs when none is being  *)
(* handled.                                                                *)
idle == started /\ request = NoRequest

(* login_manager.unauthorized(): flash login_message, redirect to login_view *)
Unauthorized == Redirect("login", <<"message", "Please log in to access this page.">>)

----------------------------------------------------------------------------
(* Authentication *)

(* load_user: AdminUser.query.get(int(user_id)) *)
load_user(user_id) == IF user_id \in DOMAIN admin_users THEN Some(user_id) ELSE None

(* Mutation: the views are not gated *)
is_authenticated_any == TRUE

(* current_user.is_authenticated *)
is_authenticated == session # None /\ load_user(Get(session)) # None

(* AdminUser.query.filter_by(username=...).first() *)
UserByName(username) ==
    LET ids == {i \in DOMAIN admin_users : admin_users[i].username = username} IN
    IF ids = {} THEN None ELSE Some(CHOOSE i \in ids : \A j \in ids : i <= j)

LoginForm_process(formdata) ==
    [username |-> StringField_process(formdata.username, None),
     password |-> StringField_process(formdata.password, None)]

LoginForm_errors(formdata) ==
    LET f == LoginForm_process(formdata) IN
    FieldErrors("csrf_token", validate_csrf(formdata.csrf_token))
    \cup FieldErrors("username", validate_text(f.username, TRUE, 0, FALSE))
    \cup FieldErrors("password", validate_text(f.password, TRUE, 0, FALSE))

LoginForm_data(formdata) ==
    LET f == LoginForm_process(formdata) IN
    [username |-> f.username.data, password |-> f.password.data]

LoginBlank == [csrf_token |-> <<>>, username |-> <<>>, password |-> <<>>]

LoginSubmissions ==
    [csrf_token : {<<"ok">>}, username : {<<"admin">>, <<"nobody">>, <<"">>},
     password : {<<"admin123">>, <<"wrong">>, <<"">>}]
    \cup {[csrf_token |-> <<>>, username |-> <<"admin">>, password |-> <<"admin123">>]}

Init ==
    /\ started = FALSE
    /\ admin_users = EmptyTable
    /\ patients = EmptyTable
    /\ doctors = EmptyTable
    /\ appointments = EmptyTable
    /\ session = None
    /\ last_deleted = None
    /\ request = NoRequest
    /\ response = NoResponse
    /\ before = NoSnapshot

(* @app.before_first_request: runs once, before the first request is       *)
(* dispatched; db.create_all() and the bootstrap administrator.            *)
create_admin ==
    /\ ~started
    /\ started' = TRUE
    /\ IF UserByName("admin") = None
       THEN \E salt \in Salts :
              admin_users' = Insert(admin_users, NewId(admin_users),
                  [username |-> "admin",
                   password_hash |-> generate_password_hash_salted("admin123", salt)])
       ELSE admin_users' = admin_users
    /\ UNCHANGED <<patients, doctors, appointments, session, last_deleted, request,
                   response, before>>

(* The decision of login() on a valid form: the user to log in, or None *)
login_check(data) ==
    LET user == UserByName(Get(data.username)) IN
    IF user # None /\ check_password(admin_users[Get(user)], Get(data.password))
    THEN user ELSE None

login ==
    /\ idle
    /\ before' = Snapshot
    /\ \E method \in {"GET", "POST"} :
       \E submitted \in (IF method = "POST" THEN LoginSubmissions ELSE {NoForm}) :
         LET formdata == IF method = "POST" THEN submitted ELSE LoginBlank
             errors == LoginForm_errors(formdata)
             data == LoginForm_data(formdata)
         IN
         /\ request' = Req("login", method, 0, 0, <<>>, submitted)
         /\ IF is_authenticated THEN
               /\ response' = Redirect("dashboard", NoFlash)
               /\ session' = session
            ELSE IF method = "POST" /\ errors = {} THEN
               IF login_check(data) # None THEN
                  /\ session' = login_check(data)
                  /\ response' = Redirect("dashboard", <<"success", "You have logged in.">>)
               ELSE
                  /\ session' = session
                  /\ response' = RenderForm("login.html", "", data, errors,
                                     <<"danger", "Wrong username or password.">>)
            ELSE
               /\ session' = session
               /\ response' = RenderForm("login.html", "", data,
                                  IF method = "POST" THEN errors ELSE {}, NoFlash)
    /\ UNCHANGED <<started, tables, last_deleted>>

logout ==
    /\ idle
    /\ before' = Snapshot
    /\ request' = Req("logout", "GET", 0, 0, <<>>, NoForm)
    /\ IF is_authenticated THEN
          /\ session' = None
          /\ response' = Redirect("login", <<"info", "You have logged out.">>)
       ELSE
          /\ session' = session
          /\ response' = Unauthorized
    /\ UNCHANGED <<started, tables, last_deleted>>

index ==
    /\ idle
    /\ before' = Snapshot
    /\ request' = Req("index", "GET", 0, 0, <<>>, NoForm)
    /\ response' = IF is_authenticated THEN Redirect("dashboard", NoFlash)
                   ELSE Redirect("login", NoFlash)
    /\ UNCHANGED <<started, tables, session, last_deleted>>

----------------------------------------------------------------------------
(* Queries *)

(* The rows of a table in rowid order, as a sequence of ids *)
RECURSIVE IdsAscending(_)
IdsAscending(S) ==
    IF S = {} THEN <<>>
    ELSE LET m == CHOOSE i \in S : \A j \in S : i <= j IN <<m>> \o IdsAscending(S \ {m})

(* Every order of the ids of S *)
RECURSIVE Orders(_)
Orders(S) ==
    IF S = {} THEN {<<>>}
    ELSE UNION {{<<i>> \o rest : rest \in Orders(S \ {i})} : i \in S}

(* a < b for two datetimes (or dates), field by field *)
RECURSIVE Before(_, _)
Before(a, b) ==
    IF a = <<>> \/ b = <<>> THEN FALSE
    ELSE IF a[1] # b[1] THEN a[1] < b[1]
    ELSE Before(Tail(a), Tail(b))

(* order_by(Appointment.appointment_date.desc()): any order of the rows    *)
(* that never puts an earlier date before a later one (ties in any order)  *)
ByDateDesc(tbl) ==
    {o \in Orders(DOMAIN tbl) :
        \A i, j \in 1..Len(o) :
            i < j => ~Before(Get(tbl[o[i]].appointment_date), Get(tbl[o[j]].appointment_date))}

(* Query.paginate(page=page, per_page=PER_PAGE): the items of the page, or *)
(* None where it aborts with 404                                           *)
paginate(rows, page) ==
    LET first == (page - 1) * PER_PAGE + 1
        last == IF page * PER_PAGE < Len(rows) THEN page * PER_PAGE ELSE Len(rows)
        items == IF page < 1 THEN <<>> ELSE SubSeq(rows, first, last)
    IN IF page < 1 \/ (items = <<>> /\ page # 1) THEN None ELSE Some(items)

Pages == 0..2

Todays == {<<2024, 3, 15>>, <<2025, 1, 2>>}

(* db.func.date(appointment_date) *)
date(dt) == <<dt[1], dt[2], dt[3]>>

dashboard ==
    /\ idle
    /\ before' = Snapshot
    /\ \E today \in Todays :
         /\ request' = Req("dashboard", "GET", 0, 0, today, NoForm)
         /\ response' =
              IF ~is_authenticated THEN Unauthorized
              ELSE RenderStats("admin/dashboard.html",
                      <<Cardinality(DOMAIN patients),
                        Cardinality(DOMAIN doctors),
                        Cardinality(DOMAIN appointments),
                        Cardinality({a \in DOMAIN appointments :
                            date(Get(appointments[a].appointment_date)) = today})>>)
    /\ UNCHANGED <<started, tables, session, last_deleted>>

(* The three list views: page = request.args.get('page', 1, type=int) *)
list_view(route, template, orders) ==
    /\ idle
    /\ before' = Snapshot
    /\ \E page \in Pages, rows \in orders :
         /\ request' = Req(route, "GET", 0, page, <<>>, NoForm)
         /\ response' =
              IF ~is_authenticated THEN Unauthorized
              ELSE IF paginate(rows, page) = None THEN Abort(404)
              ELSE RenderList(template, Get(paginate(rows, page)))
    /\ UNCHANGED <<started, tables, session, last_deleted>>

patients_view == list_view("patients", "admin/patients.html", {IdsAscending(DOMAIN patients)})

doctors_view == list_view("doctors", "admin/doctors.html", {IdsAscending(DOMAIN doctors)})

appointments_view ==
    list_view("appointments", "admin/appointments.html", ByDateDesc(appointments))

----------------------------------------------------------------------------
(* Patients *)

BlankPatient ==
    [full_name |-> None, phone |-> None, email |-> None, birth_date |-> None,
     address |-> None]

PatientBlank ==
    [csrf_token |-> <<>>, full_name |-> <<>>, phone |-> <<>>, email |-> <<>>,
     birth_date |-> <<>>, address |-> <<>>]

PatientForm_process(formdata, obj) ==
    [full_name |-> StringField_process(formdata.full_name, obj.full_name),
     phone |-> StringField_process(formdata.phone, obj.phone),
     email |-> StringField_process(formdata.email, obj.email),
     birth_date |-> DateField_process(formdata.birth_date, obj.birth_date),
     address |-> StringField_process(formdata.address, obj.address)]

(* The validators of PatientForm *)
PatientForm_errors(formdata, obj) ==
    LET f == PatientForm_process(formdata, obj) IN
    FieldErrors("csrf_token", validate_csrf(formdata.csrf_token))
    \cup FieldErrors("full_name", validate_text(f.full_name, TRUE, MAX_FULL_NAME, FALSE))
    \cup FieldErrors("phone", validate_text(f.phone, TRUE, MAX_PHONE, FALSE))
    \cup FieldErrors("email", validate_text(f.email, FALSE, MAX_EMAIL, TRUE))
    \cup FieldErrors("birth_date", f.birth_date.perr)
    \cup FieldErrors("address", validate_text(f.address, FALSE, 0, FALSE))

(* The data of the form's fields: what populate_obj copies, what the       *)
(* template shows                                                          *)
PatientForm_data(formdata, obj) ==
    LET f == PatientForm_process(formdata, obj) IN
    [full_name |-> f.full_name.data, phone |-> f.phone.data, email |-> f.email.data,
     birth_date |-> f.birth_date.data, address |-> f.address.data]

(* nullable=False columns of Patient *)
Patient_NotNull(row) == row.full_name # None /\ row.phone # None

LongText == "555-0100-0100-0100-0100"

P_OK ==
    [csrf_token |-> <<"ok">>, full_name |-> <<"Ann">>, phone |-> <<"555">>,
     email |-> <<"ann@clinic.org">>, birth_date |-> <<"1990-01-15">>,
     address |-> <<"Elm St">>]

PatientSubmissions ==
    { P_OK,
      \* valid; birth date and address not submitted
      [P_OK EXCEPT !.full_name = <<"Bob">>, !.birth_date = <<>>, !.address = <<>>],
      \* the optional fields left empty
      [P_OK EXCEPT !.email = <<"">>, !.birth_date = <<"">>, !.address = <<"">>],
      \* the optional fields not submitted
      [P_OK EXCEPT !.email = <<>>, !.birth_date = <<>>, !.address = <<>>],
      [P_OK EXCEPT !.birth_date = <<"">>],
      [P_OK EXCEPT !.email = <<"not-an-email">>],
      [P_OK EXCEPT !.full_name = <<" ">>],
      [P_OK EXCEPT !.phone = <<LongText>>],
      [P_OK EXCEPT !.birth_date = <<"1990-02-30">>],
      [P_OK EXCEPT !.csrf_token = <<>>] }

add_patient ==
    /\ idle
    /\ before' = Snapshot
    /\ \E method \in {"GET", "POST"} :
       \E submitted \in (IF method = "POST" THEN PatientSubmissions ELSE {NoForm}) :
         LET formdata == IF method = "POST" THEN submitted ELSE PatientBlank
             errors == PatientForm_errors(formdata, BlankPatient)
             data == PatientForm_data(formdata, BlankPatient)
             id == NewId(patients)
         IN
         /\ request' = Req("add_patient", method, 0, 0, <<>>, submitted)
         /\ IF ~is_authenticated THEN
               /\ response' = Unauthorized
               /\ UNCHANGED <<patients, last_deleted>>
            ELSE IF method = "POST" /\ errors = {} THEN
               /\ RoomFor(id)
               /\ IF Patient_NotNull(data) THEN
                     /\ patients' = Insert(patients, id, data)
                     /\ last_deleted' = None
                     /\ response' = Redirect("patients", <<"success", "Patient added.">>)
                  ELSE
                     /\ response' = Abort(500)
                     /\ UNCHANGED <<patients, last_deleted>>
            ELSE
               /\ response' = RenderForm("admin/patient_form.html", "Add patient", data,
                                  IF method = "POST" THEN errors ELSE {}, NoFlash)
               /\ UNCHANGED <<patients, last_deleted>>
    /\ UNCHANGED <<started, admin_users, doctors, appointments, session>>

PatientIds == 1..(MaxId + 1)

edit_patient ==
    /\ idle
    /\ before' = Snapshot
    /\ \E id \in PatientIds, method \in {"GET", "POST"} :
       \E submitted \in (IF method = "POST" THEN PatientSubmissions ELSE {NoForm}) :
         LET formdata == IF method = "POST" THEN submitted ELSE PatientBlank
             patient == patients[id]
             errors == PatientForm_errors(formdata, patient)
             data == PatientForm_data(formdata, patient)
         IN
         /\ request' = Req("edit_patient", method, id, 0, <<>>, submitted)
         /\ IF ~is_authenticated THEN
               /\ response' = Unauthorized
               /\ UNCHANGED <<patients, last_deleted>>
            ELSE IF id \notin DOMAIN patients THEN
               /\ response' = Abort(404)
               /\ UNCHANGED <<patients, last_deleted>>
            ELSE IF method = "POST" /\ errors = {} THEN
               IF Patient_NotNull(data) THEN
                  /\ patients' = [patients EXCEPT ![id] = data]
                  /\ last_deleted' = None
                  /\ response' = Redirect("patients", <<"success", "Patient updated.">>)
               ELSE
                  /\ response' = Abort(500)
                  /\ UNCHANGED <<patients, last_deleted>>
            ELSE
               /\ response' = RenderForm("admin/patient_form.html", "Edit patient", data,
                                  IF method = "POST" THEN errors ELSE {}, NoFlash)
               /\ UNCHANGED <<patients, last_deleted>>
    /\ UNCHANGED <<started, admin_users, doctors, appointments, session>>

(* nullable=False columns of Appointment *)
Appointment_NotNull(row) ==
    row.patient_id # None /\ row.doctor_id # None /\ row.appointment_date # None

(* What the unit of work does to the appointments of a parent row that is   *)
(* deleted: the relationship's backref has no delete cascade, so the child  *)
(* rows are kept and their foreign key (column fk) is set to NULL.          *)
NullChildren(fk, id) ==
    [a \in DOMAIN appointments |->
        IF appointments[a][fk] = Some(id) THEN [appointments[a] EXCEPT ![fk] = None]
        ELSE appointments[a]]

(* Mutation: the foreign keys are nullable *)
CommitOK_nullable(children) == TRUE

(* db.session.commit() of the delete of a parent row: the UPDATE of the     *)
(* children is flushed first; a row that breaks NOT NULL raises             *)
(* IntegrityError and the transaction is rolled back.                       *)
CommitOK(children) == \A a \in DOMAIN children : Appointment_NotNull(children[a])

delete_patient ==
    /\ idle
    /\ before' = Snapshot
    /\ \E id \in PatientIds :
         LET children == NullChildren("patient_id", id) IN
         /\ request' = Req("delete_patient", "POST", id, 0, <<>>, NoForm)
         /\ IF ~is_authenticated THEN
               /\ response' = Unauthorized
               /\ UNCHANGED <<patients, appointments, last_deleted>>
            ELSE IF id \notin DOMAIN patients THEN
               /\ response' = Abort(404)
               /\ UNCHANGED <<patients, appointments, last_deleted>>
            ELSE IF CommitOK(children) THEN
               /\ patients' = Remove(patients, id)
               /\ appointments' = children
               /\ last_deleted' = Some(<<"patients", id>>)
               /\ response' = Redirect("patients", <<"warning", "Patient deleted.">>)
            ELSE
               /\ response' = Abort(500)
               /\ UNCHANGED <<patients, appointments, last_deleted>>
    /\ UNCHANGED <<started, admin_users, doctors, session>>

----------------------------------------------------------------------------
(* Doctors *)

BlankDoctor ==
    [full_name |-> None, specialty |-> None, phone |-> None, email |-> None,
     room |-> None]

DoctorBlank ==
    [csrf_token |-> <<>>, full_name |-> <<>>, specialty |-> <<>>, phone |-> <<>>,
     email |-> <<>>, room |-> <<>>]

DoctorForm_process(formdata, obj) ==
    [full_name |-> StringField_process(formdata.full_name, obj.full_name),
     specialty |-> StringField_process(formdata.specialty, obj.specialty),
     phone |-> StringField_process(formdata.phone, obj.phone),
     email |-> StringField_process(formdata.email, obj.email),
     room |-> StringField_process(formdata.room, obj.room)]

(* The validators of DoctorForm *)
DoctorForm_errors(formdata, obj) ==
    LET f == DoctorForm_process(formdata, obj) IN
    FieldErrors("csrf_token", validate_csrf(formdata.csrf_token))
    \cup FieldErrors("full_name", validate_text(f.full_name, TRUE, MAX_FULL_NAME, FALSE))
    \cup FieldErrors("specialty", validate_text(f.specialty, TRUE, MAX_SPECIALTY, FALSE))
    \cup FieldErrors("phone", validate_text(f.phone, TRUE, MAX_PHONE, FALSE))
    \cup FieldErrors("email", validate_text(f.email, FALSE, MAX_EMAIL, TRUE))
    \cup FieldErrors("room", validate_text(f.room, FALSE, MAX_ROOM, FALSE))

DoctorForm_data(formdata, obj) ==
    LET f == DoctorForm_process(formdata, obj) IN
    [full_name |-> f.full_name.data, specialty |-> f.specialty.data,
     phone |-> f.phone.data, email |-> f.email.data, room |-> f.room.data]

(* nullable=False columns of Doctor *)
Doctor_NotNull(row) == row.full_name # None /\ row.specialty # None /\ row.phone # None

D_OK ==
    [csrf_token |-> <<"ok">>, full_name |-> <<"Dr Lee">>, specialty |-> <<"ENT">>,
     phone |-> <<"555">>, email |-> <<"dr@clinic.org">>, room |-> <<"101">>]

DoctorSubmissions ==
    { D_OK,
      \* valid; room not submitted
      [D_OK EXCEPT !.specialty = <<"GP">>, !.room = <<>>],
      \* the optional fields left empty
      [D_OK EXCEPT !.email = <<"">>, !.room = <<"">>],
      \* the optional fields not submitted
      [D_OK EXCEPT !.email = <<>>, !.room = <<>>],
      [D_OK EXCEPT !.email = <<"not-an-email">>],
      [D_OK EXCEPT !.specialty = <<"">>],
      [D_OK EXCEPT !.room = <<LongText>>],
      [D_OK EXCEPT !.csrf_token = <<"stale">>] }

add_doctor ==
    /\ idle
    /\ before' = Snapshot
    /\ \E method \in {"GET", "POST"} :
       \E submitted \in (IF method = "POST" THEN DoctorSubmissions ELSE {NoForm}) :
         LET formdata == IF method = "POST" THEN submitted ELSE DoctorBlank
             errors == DoctorForm_errors(formdata, BlankDoctor)
             data == DoctorForm_data(formdata, BlankDoctor)
             id == NewId(doctors)
         IN
         /\ request' = Req("add_doctor", method, 0, 0, <<>>, submitted)
         /\ IF ~is_authenticated THEN
               /\ response' = Unauthorized
               /\ UNCHANGED <<doctors, last_deleted>>
            ELSE IF method = "POST" /\ errors = {} THEN
               /\ RoomFor(id)
               /\ IF Doctor_NotNull(data) THEN
                     /\ doctors' = Insert(doctors, id, data)
                     /\ last_deleted' = None
                     /\ response' = Redirect("doctors", <<"success", "Doctor added.">>)
                  ELSE
                     /\ response' = Abort(500)
                     /\ UNCHANGED <<doctors, last_deleted>>
            ELSE
               /\ response' = RenderForm("admin/doctor_form.html", "Add doctor", data,
                                  IF method = "POST" THEN errors ELSE {}, NoFlash)
               /\ UNCHANGED <<doctors, last_deleted>>
    /\ UNCHANGED <<started, admin_users, patients, appointments, session>>

DoctorIds == 1..(MaxId + 1)

edit_doctor ==
    /\ idle
    /\ before' = Snapshot
    /\ \E id \in DoctorIds, method \in {"GET", "POST"} :
       \E submitted \in (IF method = "POST" THEN DoctorSubmissions ELSE {NoForm}) :
         LET formdata == IF method = "POST" THEN submitted ELSE DoctorBlank
             doctor == doctors[id]
             errors == DoctorForm_errors(formdata, doctor)
             data == DoctorForm_data(formdata, doctor)
         IN
         /\ request' = Req("edit_doctor", method, id, 0, <<>>, submitted)
         /\ IF ~is_authenticated THEN
               /\ response' = Unauthorized
               /\ UNCHANGED <<doctors, last_deleted>>
            ELSE IF id \notin DOMAIN doctors THEN
               /\ response' = Abort(404)
               /\ UNCHANGED <<doctors, last_deleted>>
            ELSE IF method = "POST" /\ errors = {} THEN
               IF Doctor_NotNull(data) THEN
                  /\ doctors' = [doctors EXCEPT ![id] = data]
                  /\ last_deleted' = None
                  /\ response' = Redirect("doctors", <<"success", "Doctor updated.">>)
               ELSE
                  /\ response' = Abort(500)
                  /\ UNCHANGED <<doctors, last_deleted>>
            ELSE
               /\ response' = RenderForm("admin/doctor_form.html", "Edit doctor", data,
                                  IF method = "POST" THEN errors ELSE {}, NoFlash)
               /\ UNCHANGED <<doctors, last_deleted>>
    /\ UNCHANGED <<started, admin_users, patients, appointments, session>>

delete_doctor ==
    /\ idle
    /\ before' = Snapshot
    /\ \E id \in DoctorIds :
         LET children == NullChildren("doctor_id", id) IN
         /\ request' = Req("delete_doctor", "POST", id, 0, <<>>, NoForm)
         /\ IF ~is_authenticated THEN
               /\ response' = Unauthorized
               /\ UNCHANGED <<doctors, appointments, last_deleted>>
            ELSE IF id \notin DOMAIN doctors THEN
               /\ response' = Abort(404)
               /\ UNCHANGED <<doctors, appointments, last_deleted>>
            ELSE IF CommitOK(children) THEN
               /\ doctors' = Remove(doctors, id)
               /\ appointments' = children
               /\ last_deleted' = Some(<<"doctors", id>>)
               /\ response' = Redirect("doctors", <<"warning", "Doctor deleted.">>)
            ELSE
               /\ response' = Abort(500)
               /\ UNCHANGED <<doctors, appointments, last_deleted>>
    /\ UNCHANGED <<started, admin_users, patients, session>>

----------------------------------------------------------------------------
(* Appointments *)

(* AppointmentForm.status.choices, in the order of the source:             *)
(* 'запланирован', 'завершён', 'отменён'                                   *)
StatusChoices == <<"zaplanirovan", "zavershen", "otmenen">>

StatusValues == {StatusChoices[i] : i \in 1..Len(StatusChoices)}

(* Column(db.String(20), default='запланирован') *)
StatusDefault == "zaplanirovan"

DATE_FORMAT == "%Y-%m-%d %H:%M"

BlankAppointment ==
    [patient_id |-> None, doctor_id |-> None, appointment_date |-> None,
     status |-> None]

AppointmentBlank ==
    [csrf_token |-> <<>>, patient_id |-> <<>>, doctor_id |-> <<>>,
     appointment_date |-> <<>>, status |-> <<>>]

(* appointment_date is a StringField: its data is the submitted text, or,  *)
(* when the field was not submitted, the object's value (a datetime).      *)
AppointmentForm_process(formdata, obj) ==
    [patient_id |-> SelectField_int_process(formdata.patient_id, obj.patient_id),
     doctor_id |-> SelectField_int_process(formdata.doctor_id, obj.doctor_id),
     appointment_date |-> StringField_process(formdata.appointment_date, obj.appointment_date),
     status |-> SelectField_process(formdata.status, obj.status)]

(* The validators of AppointmentForm; the choices of patient_id and        *)
(* doctor_id are the ids of Patient.query.all() and Doctor.query.all().    *)
(* DataRequired accepts any truthy value that is not text.                 *)
AppointmentForm_errors(formdata, obj) ==
    LET f == AppointmentForm_process(formdata, obj) IN
    FieldErrors("csrf_token", validate_csrf(formdata.csrf_token))
    \cup FieldErrors("patient_id", validate_select_int(f.patient_id, DOMAIN patients))
    \cup FieldErrors("doctor_id", validate_select_int(f.doctor_id, DOMAIN doctors))
    \cup FieldErrors("appointment_date",
            IF formdata.appointment_date = <<>>
            THEN (IF f.appointment_date.data = None THEN {"This field is required."} ELSE {})
            ELSE validate_text(f.appointment_date, TRUE, 0, FALSE))
    \cup FieldErrors("status", f.status.perr \cup pre_validate(f.status.data, StatusValues))

AppointmentForm_data(formdata, obj) ==
    LET f == AppointmentForm_process(formdata, obj) IN
    [patient_id |-> f.patient_id.data, doctor_id |-> f.doctor_id.data,
     appointment_date |-> f.appointment_date.data, status |-> f.status.data]

(* The INSERT applies the column default to a status that is None *)
Appointment_defaults(row) ==
    IF row.status = None THEN [row EXCEPT !.status = Some(StatusDefault)] ELSE row

A_OK ==
    [csrf_token |-> <<"ok">>, patient_id |-> <<"1">>, doctor_id |-> <<"1">>,
     appointment_date |-> <<"2024-03-15 14:30">>, status |-> <<"zaplanirovan">>]

AppointmentSubmissions ==
    { A_OK,
      [A_OK EXCEPT !.status = <<"otmenen">>],
      [A_OK EXCEPT !.patient_id = <<"2">>, !.appointment_date = <<"2025-1-2 9:05">>,
                   !.status = <<"zavershen">>],
      \* only the status submitted
      [A_OK EXCEPT !.patient_id = <<>>, !.doctor_id = <<>>, !.appointment_date = <<>>,
                   !.status = <<"zavershen">>],
      \* everything but the status submitted
      [A_OK EXCEPT !.status = <<>>],
      [A_OK EXCEPT !.patient_id = <<"9">>],
      [A_OK EXCEPT !.doctor_id = <<"9">>],
      [A_OK EXCEPT !.patient_id = <<"x">>],
      [A_OK EXCEPT !.appointment_date = <<"2024-13-40 25:99">>],
      [A_OK EXCEPT !.appointment_date = <<"2023-02-29 10:00">>],
      [A_OK EXCEPT !.appointment_date = <<"15.03.2024 14:30">>],
      [A_OK EXCEPT !.appointment_date = <<"">>],
      [A_OK EXCEPT !.appointment_date = <<"2025-01-02 09:05">>, !.status = <<"unknown">>],
      [A_OK EXCEPT !.appointment_date = <<"2024-13-40 25:99">>, !.patient_id = <<"9">>],
      [A_OK EXCEPT !.csrf_token = <<>>] }

add_appointment ==
    /\ idle
    /\ before' = Snapshot
    /\ \E method \in {"GET", "POST"} :
       \E submitted \in (IF method = "POST" THEN AppointmentSubmissions ELSE {NoForm}) :
         LET formdata == IF method = "POST" THEN submitted ELSE AppointmentBlank
             errors == AppointmentForm_errors(formdata, BlankAppointment)
             data == AppointmentForm_data(formdata, BlankAppointment)
             appt_date == strptime(Get(data.appointment_date), DATE_FORMAT)
             appointment == Appointment_defaults(
                 [patient_id |-> data.patient_id, doctor_id |-> data.doctor_id,
                  appointment_date |-> appt_date, status |-> data.status])
             id == NewId(appointments)
         IN
         /\ request' = Req("add_appointment", method, 0, 0, <<>>, submitted)
         /\ IF ~is_authenticated THEN
               /\ response' = Unauthorized
               /\ UNCHANGED <<appointments, last_deleted>>
            ELSE IF method = "POST" /\ errors = {} THEN
               IF appt_date = None THEN
                  /\ response' = RenderForm("admin/appointment_form.html", "Add appointment",
                                     data, errors,
                                     <<"danger", "Wrong date format. Use YYYY-MM-DD HH:MM">>)
                  /\ UNCHANGED <<appointments, last_deleted>>
               ELSE
                  /\ RoomFor(id)
                  /\ IF Appointment_NotNull(appointment) THEN
                        /\ appointments' = Insert(appointments, id, appointment)
                        /\ last_deleted' = None
                        /\ response' = Redirect("appointments",
                                           <<"success", "Appointment added.">>)
                     ELSE
                        /\ response' = Abort(500)
                        /\ UNCHANGED <<appointments, last_deleted>>
            ELSE
               /\ response' = RenderForm("admin/appointment_form.html", "Add appointment",
                                  data, IF method = "POST" THEN errors ELSE {}, NoFlash)
               /\ UNCHANGED <<appointments, last_deleted>>
    /\ UNCHANGED <<started, admin_users, patients, doctors, session>>

AppointmentIds == 1..(MaxId + 1)

edit_appointment ==
    /\ idle
    /\ before' = Snapshot
    /\ \E id \in AppointmentIds, method \in {"GET", "POST"} :
       \E submitted \in (IF method = "POST" THEN AppointmentSubmissions ELSE {NoForm}) :
         LET formdata == IF method = "POST" THEN submitted ELSE AppointmentBlank
             appointment == appointments[id]
             errors == AppointmentForm_errors(formdata, appointment)
             data == AppointmentForm_data(formdata, appointment)
             appt_date == strptime(Get(data.appointment_date), DATE_FORMAT)
             updated == [patient_id |-> data.patient_id, doctor_id |-> data.doctor_id,
                         appointment_date |-> appt_date, status |-> data.status]
             \* line 249: the date field is overwritten with the stored date
             prefilled == [data EXCEPT !.appointment_date =
                               Some(strftime(Get(appointment.appointment_date)))]
         IN
         /\ request' = Req("edit_appointment", method, id, 0, <<>>, submitted)
         /\ IF ~is_authenticated THEN
               /\ response' = Unauthorized
               /\ UNCHANGED <<appointments, last_deleted>>
            ELSE IF id \notin DOMAIN appointments THEN
               /\ response' = Abort(404)
               /\ UNCHANGED <<appointments, last_deleted>>
            ELSE IF method = "POST" /\ errors = {} THEN
               IF formdata.appointment_date = <<>> THEN
                  \* strptime of a datetime object: TypeError, not caught
                  /\ response' = Abort(500)
                  /\ UNCHANGED <<appointments, last_deleted>>
               ELSE IF appt_date = None THEN
                  /\ response' = RenderForm("admin/appointment_form.html",
                                     "Edit appointment", data, errors,
                                     <<"danger", "Wrong date format. Use YYYY-MM-DD HH:MM">>)
                  /\ UNCHANGED <<appointments, last_deleted>>
               ELSE IF Appointment_NotNull(updated) THEN
                  /\ appointments' = [appointments EXCEPT ![id] = updated]
                  /\ last_deleted' = None
                  /\ response' = Redirect("appointments",
                                     <<"success", "Appointment updated.">>)
               ELSE
                  /\ response' = Abort(500)
                  /\ UNCHANGED <<appointments, last_deleted>>
            ELSE
               /\ response' = RenderForm("admin/appointment_form.html", "Edit appointment",
                                  prefilled, IF method = "POST" THEN errors ELSE {}, NoFlash)
               /\ UNCHANGED <<appointments, last_deleted>>
    /\ UNCHANGED <<started, admin_users, patients, doctors, session>>

delete_appointment ==
    /\ idle
    /\ before' = Snapshot
    /\ \E id \in AppointmentIds :
         /\ request' = Req("delete_appointment", "POST", id, 0, <<>>, NoForm)
         /\ IF ~is_authenticated THEN
               /\ response' = Unauthorized
               /\ UNCHANGED <<appointments, last_deleted>>
            ELSE IF id \notin DOMAIN appointments THEN
               /\ response' = Abort(404)
               /\ UNCHANGED <<appointments, last_deleted>>
            ELSE
               /\ appointments' = Remove(appointments, id)
               /\ last_deleted' = Some(<<"appointments", id>>)
               /\ response' = Redirect("appointments", <<"warning", "Appointment deleted.">>)
    /\ UNCHANGED <<started, admin_users, patients, doctors, session>>

----------------------------------------------------------------------------
(* The response is sent and the request context is torn down *)
finish_request ==
    /\ request # NoRequest
    /\ request' = NoRequest
    /\ response' = NoResponse
    /\ before' = NoSnapshot
    /\ UNCHANGED <<started, tables, session, last_deleted>>

Next ==
    \/ create_admin
    \/ login
    \/ logout
    \/ index
    \/ dashboard
    \/ patients_view
    \/ add_patient
    \/ edit_patient
    \/ delete_patient
    \/ doctors_view
    \/ add_doctor
    \/ edit_doctor
    \/ delete_doctor
    \/ appointments_view
    \/ add_appointment
    \/ edit_appointment
    \/ delete_appointment
    \/ finish_request

Spec == Init /\ [][Next]_vars

----------------------------------------------------------------------------
(* Vocabulary of the properties *)

Handled(route) == request.route = route

Posted(route) == request.route = route /\ request.method = "POST"

WasLoggedIn == before.session # None

TablesUnchanged ==
    /\ admin_users = before.admin_users
    /\ patients = before.patients
    /\ doctors = before.doctors
    /\ appointments = before.appointments

AdminRoutes ==
    {"dashboard",
     "patients", "add_patient", "edit_patient", "delete_patient",
     "doctors", "add_doctor", "edit_doctor", "delete_doctor",
     "appointments", "add_appointment", "edit_appointment", "delete_appointment"}

RedirectedTo(location) == response.code = 302 /\ response.location = location

(* The field has an error attached *)
FieldFailed(name) == \E e \in response.errors : e[1] = name

DateFormatFlash == <<"danger", "Wrong date format. Use YYYY-MM-DD HH:MM">>

(* The texts that are dates and date-times, with what they denote *)
DatesDenoted == [t \in {"1990-01-15"} |-> <<1990, 1, 15>>]

DateTimesDenoted ==
    [t \in {"2024-03-15 14:30", "2025-1-2 9:05", "2025-01-02 09:05"} |->
        IF t = "2024-03-15 14:30" THEN <<2024, 3, 15, 14, 30>> ELSE <<2025, 1, 2, 9, 5>>]

----------------------------------------------------------------------------
C2_LoginEstablishesSession ==
    /\ (Handled("login") /\ session # before.session) =>
          /\ request.method = "POST"
          /\ request.form.username = <<"admin">>
          /\ request.form.password = <<"admin123">>
          /\ session # None
          /\ Get(session) \in DOMAIN admin_users
          /\ admin_users[Get(session)].username = "admin"
    /\ (/\ Posted("login")
        /\ ~WasLoggedIn
        /\ request.form.csrf_token = <<"ok">>
        /\ request.form.username \notin {<<>>, <<"">>}
        /\ request.form.password \notin {<<>>, <<"">>}
        /\ ~(request.form.username = <<"admin">> /\ request.form.password = <<"admin123">>)) =>
          /\ session = None
          /\ response.code = 200
          /\ response.template = "login.html"
          /\ response.errors = {}
          /\ response.flash = <<"danger", "Wrong username or password.">>
    /\ (Handled("dashboard") /\ WasLoggedIn) => response.code = 200
    /\ (request # NoRequest /\ WasLoggedIn /\ session = None) => Handled("logout")

C2_Witness ==
    /\ Handled("dashboard")
    /\ WasLoggedIn
    /\ response.code = 200

(* C3: an appointment create or update by a logged-in admin whose          *)
(* patient_id is not the id of a patient, or whose doctor_id is not the id *)
(* of a doctor, at that time, fails with a validation error on that field  *)
(* and leaves the appointments table as it was.                            *)
NamesNoRow(raw, tbl) == raw # <<>> /\ ~\E i \in DOMAIN tbl : ToString(i) = raw[1]

AppointmentWrite ==
    /\ Posted("add_appointment") \/ Posted("edit_appointment")
    /\ WasLoggedIn
    /\ Handled("edit_appointment") => request.id \in DOMAIN before.appointments

C3_UnknownPatientOrDoctorRejected ==
    /\ (AppointmentWrite /\ NamesNoRow(request.form.patient_id, before.patients)) =>
          /\ response.code = 200
          /\ FieldFailed("patient_id")
          /\ appointments = before.appointments
    /\ (AppointmentWrite /\ NamesNoRow(request.form.doctor_id, before.doctors)) =>
          /\ response.code = 200
          /\ FieldFailed("doctor_id")
          /\ appointments = before.appointments

C3_Witness ==
    /\ AppointmentWrite
    /\ Handled("edit_appointment")
    /\ request.form.patient_id = <<"2">>
    /\ 2 \notin DOMAIN patients
    /\ FieldFailed("patient_id")
    /\ ~FieldFailed("doctor_id")

(* C4: after a delete of a patient, doctor or appointment has succeeded and *)
(* while no other mutation has followed, no page of that list holds the id, *)
(* and a second delete of the id is answered 404 and changes no table.      *)
ListRoute(tbl) == tbl

DeleteRoute(tbl) ==
    CASE tbl = "patients" -> "delete_patient"
      [] tbl = "doctors" -> "delete_doctor"
      [] tbl = "appointments" -> "delete_appointment"

Table(tbl) ==
    CASE tbl = "patients" -> patients
      [] tbl = "doctors" -> doctors
      [] tbl = "appointments" -> appointments

InItems(id, items) == \E k \in 1..Len(items) : items[k] = id

C4_DeletedStaysDeleted ==
    \A tbl \in {"patients", "doctors", "appointments"} :
       /\ (Handled(DeleteRoute(tbl)) /\ WasLoggedIn /\ RedirectedTo(ListRoute(tbl))) =>
             /\ last_deleted = Some(<<tbl, request.id>>)
             /\ request.id \in DOMAIN before[tbl]
       /\ (last_deleted # None /\ Get(last_deleted)[1] = tbl) =>
             Get(last_deleted)[2] \notin DOMAIN Table(tbl)
       /\ (Handled(ListRoute(tbl)) /\ WasLoggedIn /\ before.last_deleted # None
             /\ Get(before.last_deleted)[1] = tbl) =>
             \/ response.code = 404 /\ request.page # 1
             \/ response.code = 200 /\ ~InItems(Get(before.last_deleted)[2], response.items)
       /\ (Handled(DeleteRoute(tbl)) /\ WasLoggedIn
             /\ before.last_deleted = Some(<<tbl, request.id>>)) =>
             /\ response.code = 404
             /\ TablesUnchanged

C4_Witness ==
    /\ Handled("delete_patient")
    /\ WasLoggedIn
    /\ before.last_deleted = Some(<<"patients", request.id>>)
    /\ response.code = 404
    /\ patients # EmptyTable

(* C5: a successful update of a patient or a doctor leaves the row with the *)
(* submitted value in every field that was submitted and the former value   *)
(* in every other, leaves the id and every other row of every table as they *)
(* were; an update of an id that does not exist is answered 404 and changes *)
(* nothing.                                                                 *)
Merged(raw, old) == IF raw = <<>> THEN old ELSE Some(raw[1])

MergedDate(raw, old) == IF raw = <<>> THEN old ELSE Some(DatesDenoted[raw[1]])

OthersUnchanged(tbl, was, id) ==
    /\ DOMAIN tbl = DOMAIN was
    /\ \A i \in DOMAIN tbl \ {id} : tbl[i] = was[i]

C5_UpdateMerges ==
    /\ (Posted("edit_patient") /\ WasLoggedIn /\ RedirectedTo("patients")) =>
          LET f == request.form
              old == before.patients[request.id]
          IN /\ request.id \in DOMAIN before.patients
             /\ patients[request.id] =
                  [full_name |-> Merged(f.full_name, old.full_name),
                   phone |-> Merged(f.phone, old.phone),
                   email |-> Merged(f.email, old.email),
                   birth_date |-> MergedDate(f.birth_date, old.birth_date),
                   address |-> Merged(f.address, old.address)]
             /\ OthersUnchanged(patients, before.patients, request.id)
             /\ doctors = before.doctors
             /\ appointments = before.appointments
             /\ admin_users = before.admin_users
    /\ (Posted("edit_doctor") /\ WasLoggedIn /\ RedirectedTo("doctors")) =>
          LET f == request.form
              old == before.doctors[request.id]
          IN /\ request.id \in DOMAIN before.doctors
             /\ doctors[request.id] =
                  [full_name |-> Merged(f.full_name, old.full_name),
                   specialty |-> Merged(f.specialty, old.specialty),
                   phone |-> Merged(f.phone, old.phone),
                   email |-> Merged(f.email, old.email),
                   room |-> Merged(f.room, old.room)]
             /\ OthersUnchanged(doctors, before.doctors, request.id)
             /\ patients = before.patients
             /\ appointments = before.appointments
             /\ admin_users = before.admin_users
    /\ (Handled("edit_patient") /\ WasLoggedIn /\ request.id \notin DOMAIN before.patients) =>
          response.code = 404 /\ TablesUnchanged
    /\ (Handled("edit_doctor") /\ WasLoggedIn /\ request.id \notin DOMAIN before.doctors) =>
          response.code = 404 /\ TablesUnchanged

C5_Witness ==
    /\ Posted("edit_patient")
    /\ WasLoggedIn
    /\ RedirectedTo("patients")
    /\ request.form.birth_date = <<>>
    /\ patients[request.id].birth_date # None
    /\ patients[request.id].full_name # before.patients[request.id].full_name
    /\ Cardinality(DOMAIN patients) = 2
    /\ doctors # EmptyTable

(* C6: in an appointment create or update, a date text that is no real      *)
(* date-time in the format YYYY-MM-DD HH:MM is rejected, with the format    *)
(* message once the fields themselves are valid, and the appointments table *)
(* stays as it was; a text that is one raises no date error, and the        *)
(* appointment that is stored holds exactly the date-time the text denotes. *)
SubmittedDate == request.form.appointment_date

WrittenId ==
    IF Handled("edit_appointment") THEN request.id
    ELSE CHOOSE i \in DOMAIN appointments : i \notin DOMAIN before.appointments

C6_DateParsedOrRejected ==
    /\ (AppointmentWrite /\ SubmittedDate # <<>>
          /\ SubmittedDate[1] \notin DOMAIN DateTimesDenoted) =>
          /\ response.code = 200
          /\ response.errors = {} => response.flash = DateFormatFlash
          /\ response.errors # {} \/ response.flash = DateFormatFlash
          /\ appointments = before.appointments
    /\ (AppointmentWrite /\ SubmittedDate # <<>>
          /\ SubmittedDate[1] \in DOMAIN DateTimesDenoted) =>
          /\ ~FieldFailed("appointment_date")
          /\ response.flash # DateFormatFlash
          /\ response.errors = {} => RedirectedTo("appointments")
          /\ RedirectedTo("appointments") =>
                appointments[WrittenId].appointment_date =
                    Some(DateTimesDenoted[SubmittedDate[1]])

C6_Witness ==
    /\ AppointmentWrite
    /\ Handled("add_appointment")
    /\ SubmittedDate = <<"2024-03-15 14:30">>
    /\ RedirectedTo("appointments")
    /\ \E a \in DOMAIN appointments :
          appointments[a].appointment_date = Some(<<2024, 3, 15, 14, 30>>)

(* C7: a patient or doctor create whose required fields are present and     *)
(* valid and whose optional fields are left empty succeeds and stores the   *)
(* row.                                                                     *)
LeftEmpty(raw) == raw \in {<<>>, <<"">>}

C7_OptionalFieldsMayBeEmpty ==
    /\ (/\ Posted("add_patient")
        /\ WasLoggedIn
        /\ request.form.csrf_token = <<"ok">>
        /\ request.form.full_name \in {<<"Ann">>, <<"Bob">>}
        /\ request.form.phone = <<"555">>
        /\ LeftEmpty(request.form.email)
        /\ LeftEmpty(request.form.birth_date)
        /\ LeftEmpty(request.form.address)) =>
          /\ RedirectedTo("patients")
          /\ Cardinality(DOMAIN patients) = Cardinality(DOMAIN before.patients) + 1
    /\ (/\ Posted("add_doctor")
        /\ WasLoggedIn
        /\ request.form.csrf_token = <<"ok">>
        /\ request.form.full_name = <<"Dr Lee">>
        /\ request.form.specialty \in {<<"ENT">>, <<"GP">>}
        /\ request.form.phone = <<"555">>
        /\ LeftEmpty(request.form.email)
        /\ LeftEmpty(request.form.room)) =>
          /\ RedirectedTo("doctors")
          /\ Cardinality(DOMAIN doctors) = Cardinality(DOMAIN before.doctors) + 1

(* C8: every stored appointment has one of the three status values; a       *)
(* create or update with another status is rejected at the form, the value  *)
(* is not replaced by another and nothing is written; what a create stores  *)
(* is the status that was chosen, and the first choice of the form is the   *)
(* column's default.                                                        *)
C8_StatusEnumerated ==
    /\ \A a \in DOMAIN appointments :
          appointments[a].status \in
              {<<"zaplanirovan">>, <<"zavershen">>, <<"otmenen">>}
    /\ (AppointmentWrite
          /\ request.form.status # <<>>
          /\ request.form.status[1] \notin {"zaplanirovan", "zavershen", "otmenen"}) =>
          /\ response.code = 200
          /\ <<"status", "Not a valid choice">> \in response.errors
          /\ response.form.status = request.form.status
          /\ appointments = before.appointments
    /\ (AppointmentWrite /\ Handled("add_appointment") /\ RedirectedTo("appointments")) =>
          appointments[WrittenId].status = request.form.status
    /\ StatusChoices[1] = "zaplanirovan" /\ StatusDefault = "zaplanirovan"

C8_Witness ==
    /\ AppointmentWrite
    /\ Handled("edit_appointment")
    /\ request.form.status = <<"unknown">>
    /\ <<"status", "Not a valid choice">> \in response.errors
    /\ appointments[request.id].status = <<"zavershen">>

(* C9: when an appointment update is rejected with a validation error, the  *)
(* form that is rendered again holds what was submitted in that request,    *)
(* the appointment_date text included.                                      *)
C9_RejectedUpdateKeepsInput ==
    (/\ AppointmentWrite
     /\ Handled("edit_appointment")
     /\ response.code = 200
     /\ SubmittedDate # <<>>) =>
        /\ response.form.appointment_date = SubmittedDate
        /\ request.form.status # <<>> => response.form.status = request.form.status

(* C10: every stored appointment names an existing patient and an existing  *)
(* doctor; the delete of a patient or doctor that has appointments either   *)
(* removes them too or is refused and leaves all of them in place.          *)
HadAppointments(fk) ==
    \E a \in DOMAIN before.appointments : before.appointments[a][fk] = Some(request.id)

C10_AppointmentsReferToRows ==
    /\ \A a \in DOMAIN appointments :
          /\ appointments[a].patient_id # None
          /\ Get(appointments[a].patient_id) \in DOMAIN patients
          /\ appointments[a].doctor_id # None
          /\ Get(appointments[a].doctor_id) \in DOMAIN doctors
    /\ (Handled("delete_patient") /\ WasLoggedIn /\ HadAppointments("patient_id")) =>
          \/ TablesUnchanged /\ response.code # 302
          \/ /\ request.id \notin DOMAIN patients
             /\ \A a \in DOMAIN appointments : appointments[a].patient_id # Some(request.id)
    /\ (Handled("delete_doctor") /\ WasLoggedIn /\ HadAppointments("doctor_id")) =>
          \/ TablesUnchanged /\ response.code # 302
          \/ /\ request.id \notin DOMAIN doctors
             /\ \A a \in DOMAIN appointments : appointments[a].doctor_id # Some(request.id)

C10_Witness ==
    /\ Handled("delete_patient")
    /\ WasLoggedIn
    /\ HadAppointments("patient_id")
    /\ response.code = 500
    /\ request.id \in DOMAIN patients

====
